---- MODULE Spec2Model ----
(***************************************************************************)
(* A model of igel's IgelModel (src/igel/igel.py).  One invocation is the   *)
(* construction of the orchestrator with a command and its arguments,      *)
(* followed by the call of the method the command names; it runs against   *)
(* the files of the results directory of its working directory.            *)
(*                                                                         *)
(* Optional values (Python None, an absent file) are sequences of length   *)
(* at most one: <<>> is None / absent, <<v>> is the value v.               *)
(***************************************************************************)
EXTENDS Integers, Sequences, FiniteSets, TLC

VARIABLES
    fs,           \* fs[d]: the directory d/model_results and its four files
    nfit,         \* number of fit() calls that reached the persistence step
    last,         \* log of the most recent invocation
    descFailed,   \* fits whose description.json write failed after model.sav was written
    fullOutcomes, \* outcomes seen of fit() calls in which both writes succeeded
    partOutcomes, \* outcomes seen of fit() calls with model.sav written, description failed
    fitHist,      \* fitHist[d]: the last fits that wrote to d, if fully successful in a row
    prep          \* a call of _process_data on its own: its inputs and what it returned

vars == <<fs, nfit, last, descFailed, fullOutcomes, partOutcomes, fitHist, prep>>

(***************************************************************************)
(* Bounds                                                                  *)
(***************************************************************************)
MaxFits == 2      \* fit() calls that reach the persistence step
MaxTargets == 2   \* length of a target list given to _process_data on its own

(***************************************************************************)
(* Class attributes of IgelModel                                           *)
(***************************************************************************)
commands == {"fit", "evaluate", "predict"}
model_types == {"regression", "classification"}
stats_dir == "model_results"
save_to == "model.sav"

None == <<>>
Some(v) == <<v>>
Range(s) == {s[i] : i \in DOMAIN s}

\* The working directories a process can be started in: fit runs in either,
\* evaluate and predict in the first (their model path may name the model
\* file of the other), and the environment fails in the first only.
Dirs == {"d1", "d2"}
LoadDirs == {"d1"}

\* res_path = Path(os.getcwd()) / stats_dir
res_path(cwd) == <<cwd, stats_dir>>

(***************************************************************************)
(* The world outside the program: datasets, configurations, the registry   *)
(***************************************************************************)
DataPaths == {"train.csv", "one.csv", "feat.csv", "nofile.csv"}

\* The data paths given to evaluate (tables with targets) and to predict.
EvalPaths == {"train.csv", "one.csv", "nofile.csv"}
PredictPaths == {"train.csv", "feat.csv", "nofile.csv"}

\* pd.read_csv(data_path): the table (header and row count), None when it raises.
ReadCsv(p) ==
    CASE p = "train.csv" -> Some([columns |-> <<"x1", "y1", "y2">>, rows |-> 3])
      [] p = "one.csv"   -> Some([columns |-> <<"x1", "y1">>, rows |-> 1])
      [] p = "feat.csv"  -> Some([columns |-> <<"x1">>, rows |-> 2])
      [] OTHER           -> None

Cfg(model_type, algorithm, target, isList) ==
    [model_type |-> model_type, algorithm |-> algorithm, target |-> target,
     isList |-> isList]

\* No yaml file is read for a command other than fit.
NoCfg == Cfg("", "", <<>>, FALSE)

\* The fit inputs: a data path and the (model_type, algorithm, target) the
\* yaml file holds.  isList = FALSE is a target entry that is no list.
FitInputs ==
    { <<"train.csv",  Cfg("regression", "LinearRegression", <<"y2", "y1">>, TRUE)>>,
      <<"one.csv",    Cfg("classification", "DecisionTree", <<"y1">>, TRUE)>>,
      <<"one.csv",    Cfg("regression", "LinearRegression", <<"y2", "y1">>, TRUE)>>,
      <<"nofile.csv", Cfg("regression", "LinearRegression", <<"y2", "y1">>, TRUE)>>,
      <<"train.csv",  Cfg("classification", "DecisionTree", <<"y1", "y1">>, TRUE)>>,
      <<"feat.csv",   Cfg("regression", "DecisionTree", <<"y1">>, TRUE)>>,
      <<"train.csv",  Cfg("clustering", "LinearRegression", <<"y1">>, TRUE)>>,
      <<"train.csv",  Cfg("regression", "LinearRegression", <<>>, TRUE)>>,
      <<"train.csv",  Cfg("regression", "LinearRegression", <<>>, FALSE)>> }

\* models_dict.get(model_type).get(algorithm): the model class, None when absent.
ModelsDictGet(model_type, algorithm) ==
    CASE model_type = "regression" /\ algorithm = "LinearRegression"
            -> Some("LinearRegression")
      [] model_type = "classification" /\ algorithm = "DecisionTree"
            -> Some("DecisionTreeClassifier")
      [] OTHER -> None

\* _reshape: an array of fewer than two dimensions gets a trailing one.
Reshape(a) == IF a.ndim < 2 THEN [a EXCEPT !.ndim = 2] ELSE a

(***************************************************************************)
(* The file system                                                         *)
(***************************************************************************)
NoDir == [exists |-> FALSE, model |-> None, desc |-> None,
          eval |-> None, pred |-> None]

\* An existing file is kept instead of being overwritten.
WriteFileOnce(old, content, mode) ==
    IF old # None THEN old ELSE Some(content)

\* open(path, 'w') then dump(content): "open" fails before the file is
\* touched; "partial" fails after open() truncated it, leaving a file that
\* holds an incomplete document; "ok" leaves the whole content.
WriteFile(old, content, mode) ==
    CASE mode = "open"    -> old
      [] mode = "partial" -> Some([content EXCEPT !.ok = FALSE])
      [] OTHER            -> Some(content)

(***************************************************************************)
(* The invocation log                                                      *)
(***************************************************************************)
NoLog == [op |-> "none", command |-> "", cwd |-> "", data_path |-> "",
          model_path |-> None, steps |-> <<>>, errs |-> <<>>,
          raised |-> FALSE, env |-> FALSE, fitid |-> 0,
          used |-> None, ypred |-> None, saved |-> FALSE]

Log(op, steps, errs, raised, env) ==
    [NoLog EXCEPT !.op = op, !.steps = steps, !.errs = errs,
                  !.raised = raised, !.env = env]

(***************************************************************************)
(* __init__                                                                *)
(***************************************************************************)
\* A missing description.json yields an empty description instead of raising.
ReadDescriptionDefault(dir) ==
    IF dir.desc = None \/ ~dir.desc[1].ok
    THEN [raised |-> FALSE, err |-> "",
          dic |-> Some([type |-> "regression", target |-> <<"y1">>])]
    ELSE [raised |-> FALSE, err |-> "", dic |-> dir.desc]

\* json.load of res_path / 'description.json' in __init__.
ReadDescription(dir) ==
    IF dir.desc = None THEN [raised |-> TRUE, err |-> "FileNotFoundError", dic |-> None]
    ELSE IF ~dir.desc[1].ok
         THEN [raised |-> TRUE, err |-> "JSONDecodeError", dic |-> None]
         ELSE [raised |-> FALSE, err |-> "", dic |-> dir.desc]

\* extract_params(yaml_config): (model_type, target, algorithm) as the
\* configuration gives them.
ExtractParams(cfg) == <<cfg.model_type, cfg.target, cfg.algorithm>>

\* The object __init__ builds for the command "fit".
FitObject(cwd, data_path, cfg) ==
    [cwd |-> cwd, data_path |-> data_path,
     hasAlgorithm |-> TRUE, model_type |-> ExtractParams(cfg)[1],
     algorithm |-> ExtractParams(cfg)[3], target |-> ExtractParams(cfg)[2],
     targetIsList |-> cfg.isList, model_path |-> None]

\* The object __init__ builds for any other command from the description.
LoadObject(cwd, data_path, model_path, dic) ==
    [cwd |-> cwd, data_path |-> data_path,
     hasAlgorithm |-> FALSE, model_type |-> dic.type,
     algorithm |-> "", target |-> dic.target,
     targetIsList |-> TRUE, model_path |-> model_path]

\* __init__: the object built (None when it raises) and what it logged.
InitRun(command, cwd, data_path, cfg, model_path, store) ==
    LET unknown == IF command \in commands THEN <<>> ELSE <<"unknown_command">> IN
    IF command = "fit"
    THEN [obj |-> Some(FitObject(cwd, data_path, cfg)),
          steps |-> <<"read_yaml">>, errs |-> unknown]
    ELSE LET rd == ReadDescription(store[cwd]) IN
         IF rd.raised
         THEN [obj |-> None, steps |-> <<"read_description">>,
               errs |-> unknown \o <<rd.err>>]
         ELSE [obj |-> Some(LoadObject(cwd, data_path, model_path, rd.dic[1])),
               steps |-> <<"read_description">>, errs |-> unknown]

(***************************************************************************)
(* fit                                                                     *)
(***************************************************************************)
\* A kind or an algorithm the registry does not hold yields LinearRegression.
CreateModelDefault(model_type, algorithm) ==
    LET m == ModelsDictGet(model_type, algorithm) IN
    [raised |-> FALSE, err |-> "",
     cls |-> IF m = None THEN "LinearRegression" ELSE m[1]]

\* _create_model
CreateModel(model_type, algorithm) ==
    IF model_type \notin model_types
    THEN [raised |-> TRUE, err |-> "AssertionError", cls |-> ""]
    ELSE LET m == ModelsDictGet(model_type, algorithm) IN
         IF m = None
         THEN [raised |-> TRUE, err |-> "ModelNotFound", cls |-> ""]
         ELSE [raised |-> FALSE, err |-> "", cls |-> m[1]]

\* [dataset.pop(x) for x in target]: the columns left, the columns popped, and
\* whether a pop raised KeyError (the name is no longer a column).
RECURSIVE PopAll(_, _, _, _)
PopAll(columns, target, i, popped) ==
    IF i > Len(target) THEN [ok |-> TRUE, left |-> columns, popped |-> popped]
    ELSE IF target[i] \notin Range(columns)
         THEN [ok |-> FALSE, left |-> columns, popped |-> popped]
         ELSE PopAll(SelectSeq(columns, LAMBDA c : c # target[i]), target, i + 1,
                     Append(popped, target[i]))

\* _process_data on the table read_csv yields (None when read_csv raises):
\* the asserts raise; everything else is logged and yields None.
ProcessTable(target, targetIsList, ds) ==
    IF ~targetIsList \/ Len(target) = 0
    THEN [raised |-> TRUE, err |-> "AssertionError", ret |-> None]
    ELSE IF ds = None
         THEN [raised |-> FALSE, err |-> "read_csv", ret |-> None]
         ELSE IF \E i \in DOMAIN target : target[i] \notin Range(ds[1].columns)
         THEN [raised |-> FALSE, err |-> "target_missing", ret |-> None]
         ELSE LET p == PopAll(ds[1].columns, target, 1, <<>>) IN
              IF ~p.ok
              THEN [raised |-> FALSE, err |-> "KeyError", ret |-> None]
              ELSE [raised |-> FALSE, err |-> "",
                    ret |-> Some([x |-> [ndim |-> 2, rows |-> ds[1].rows, cols |-> p.left],
                                  y |-> [ndim |-> 2, rows |-> ds[1].rows, cols |-> p.popped]])]

\* _process_data: the table is the one pd.read_csv(self.data_path) reads.
ProcessData(target, targetIsList, data_path) ==
    ProcessTable(target, targetIsList, ReadCsv(data_path))

\* Unpacking never raises: a None result is taken as a pair of empty arrays.
UnpackRaisesNever(ret) == FALSE

\* `x, y = self._prepare_fit_data()`: unpacking None raises TypeError.
UnpackRaises(ret) == ret = None

EmptyXY == [x |-> [ndim |-> 2, rows |-> 0, cols |-> <<>>],
            y |-> [ndim |-> 2, rows |-> 0, cols |-> <<>>]]

\* self.model after model.fit(x, y), as pickle.dump writes it: the model of fit
\* number id, which expects as many feature columns as x has and predicts
\* one column per column of y.  type and target record the problem kind and
\* the targets it was fitted for.
TrainedModel(id, cls, xy, o) ==
    [fit |-> id, cls |-> cls, nfeat |-> Len(xy.x.cols),
     ntarget |-> Len(xy.y.cols), type |-> o.model_type, target |-> o.target,
     ok |-> TRUE]

\* A failed mkdir leaves the directory present all the same.
SaveModelDirOnly(dir, model, mkdirFails, mode) ==
    IF ~dir.exists /\ mkdirFails
    THEN [dir |-> [dir EXCEPT !.exists = TRUE], saved |-> FALSE, raised |-> FALSE,
          err |-> <<"mkdir">>]
    ELSE LET d1 == [dir EXCEPT !.exists = TRUE]
             d2 == [d1 EXCEPT !.model = WriteFile(d1.model, model, mode)]
         IN [dir |-> d2, saved |-> mode = "ok", raised |-> mode # "ok",
             err |-> IF mode = "ok" THEN <<>> ELSE <<"pickle.dump">>]

\* _save_model: mkdir when absent (OSError is caught: returns None), then
\* pickle.dump(model, open(res_path / save_to, 'wb')), which is not guarded.
SaveModel(dir, model, mkdirFails, mode) ==
    IF ~dir.exists /\ mkdirFails
    THEN [dir |-> dir, saved |-> FALSE, raised |-> FALSE, err |-> <<"mkdir">>]
    ELSE LET d1 == [dir EXCEPT !.exists = TRUE]
             d2 == [d1 EXCEPT !.model = WriteFile(d1.model, model, mode)]
         IN [dir |-> d2, saved |-> mode = "ok", raised |-> mode # "ok",
             err |-> IF mode = "ok" THEN <<>> ELSE <<"pickle.dump">>]

\* The description names the algorithm of the configuration, not the class.
FitDescriptionAlgorithm(o, id, cls) ==
    [fit |-> id, model |-> o.algorithm, type |-> o.model_type, data_path |-> o.data_path,
     results_path |-> res_path(o.cwd), model_path |-> res_path(o.cwd),
     target |-> o.target, ok |-> TRUE]

\* fit_description
FitDescription(o, id, cls) ==
    [fit |-> id, model |-> cls, type |-> o.model_type, data_path |-> o.data_path,
     results_path |-> res_path(o.cwd), model_path |-> res_path(o.cwd),
     target |-> o.target, ok |-> TRUE]

\* The description is not written at all.
WriteDescriptionNever(dir, desc, mode) == [dir |-> dir, err |-> <<>>]

\* The description is written whether or not the directory exists.
WriteDescriptionAnywhere(dir, desc, mode) ==
    [dir |-> [dir EXCEPT !.desc = WriteFile(dir.desc, desc, mode)],
     err |-> IF mode = "ok" THEN <<>> ELSE <<"description">>]

\* The try block that writes description.json; every failure is logged only.
WriteDescription(dir, desc, mode) ==
    LET m == IF dir.exists THEN mode ELSE "open" IN
    [dir |-> [dir EXCEPT !.desc = WriteFile(dir.desc, desc, m)],
     err |-> IF m = "ok" THEN <<>> ELSE <<"description">>]

\* At most one failure of the environment per invocation: a raising failure
\* ends the invocation, and after a failed mkdir the description write fails
\* by itself.
FitFaults == {"none", "model_fit", "mkdir", "model_partial",
              "desc_open", "desc_partial"}

Mode(flt, open, partial) ==
    IF flt = open THEN "open" ELSE IF flt = partial THEN "partial" ELSE "ok"

\* fit(): the store it leaves, the fit number it used, its log.
FitRun(o, store, id, flt) ==
    LET cwd == o.cwd
        out(steps, errs, raised, env, dir, used, saved) ==
            [fs |-> [store EXCEPT ![cwd] = dir],
             log |-> [Log("fit", steps, errs, raised, env)
                        EXCEPT !.fitid = IF used THEN id ELSE 0,
                               !.saved = saved,
                               !.used = Some([model |-> None, type |-> o.model_type,
                                              target |-> o.target,
                                              algorithm |-> o.algorithm])]]
    IN
    IF ~o.hasAlgorithm
    THEN out(<<>>, <<"AttributeError">>, TRUE, FALSE, store[cwd], FALSE, FALSE)
    ELSE
    LET cm == CreateModel(o.model_type, o.algorithm) IN
    IF cm.raised
    THEN out(<<"create_model">>, <<cm.err>>, TRUE, FALSE, store[cwd], FALSE, FALSE)
    ELSE
    LET pd == ProcessData(o.target, o.targetIsList, o.data_path) IN
    IF pd.raised
    THEN out(<<"create_model", "process_data">>, <<pd.err>>, TRUE, FALSE,
             store[cwd], FALSE, FALSE)
    ELSE IF UnpackRaises(pd.ret)
    THEN out(<<"create_model", "process_data">>, <<pd.err, "TypeError">>, TRUE,
             FALSE, store[cwd], FALSE, FALSE)
    ELSE IF flt = "model_fit"
    THEN out(<<"create_model", "process_data", "model_fit">>, <<"model_fit">>,
             TRUE, TRUE, store[cwd], FALSE, FALSE)
    ELSE
    LET xy    == IF pd.ret = None THEN EmptyXY ELSE pd.ret[1]
        model == TrainedModel(id, cm.cls, xy, o)
        sv    == SaveModel(store[cwd], model, flt = "mkdir",
                           Mode(flt, "model_open", "model_partial"))
    IN
    IF sv.raised
    THEN out(<<"create_model", "process_data", "model_fit", "save_model">>,
             sv.err, TRUE, TRUE, sv.dir, TRUE, FALSE)
    ELSE
    LET wd == WriteDescription(sv.dir, FitDescription(o, id, cm.cls),
                               Mode(flt, "desc_open", "desc_partial"))
    IN out(<<"create_model", "process_data", "model_fit", "save_model",
             "write_description">>,
           sv.err \o wd.err, FALSE, sv.err \o wd.err # <<>>, wd.dir, TRUE, sv.saved)

(***************************************************************************)
(* evaluate and predict                                                    *)
(***************************************************************************)
\* A model path that names no file falls back to the default location.
LoadModelFallback(store, cwd, f, fails) ==
    LET file == IF f = None \/ store[f[1]].model = None
                THEN store[cwd].model ELSE store[f[1]].model IN
    IF file = None
    THEN [raised |-> FALSE, env |-> FALSE, err |-> <<"FileNotFoundError">>,
          model |-> None]
    ELSE IF fails \/ ~file[1].ok
    THEN [raised |-> TRUE, env |-> fails, err |-> <<"pickle.load">>, model |-> None]
    ELSE [raised |-> FALSE, env |-> FALSE, err |-> <<>>, model |-> file]

\* _load_model: FileNotFoundError is caught and yields None; any other failure
\* of open / pickle.load (an unreadable or truncated file) is raised.
LoadModel(store, cwd, f, fails) ==
    LET file == IF f = None THEN store[cwd].model ELSE store[f[1]].model IN
    IF file = None
    THEN [raised |-> FALSE, env |-> FALSE, err |-> <<"FileNotFoundError">>,
          model |-> None]
    ELSE IF fails \/ ~file[1].ok
    THEN [raised |-> TRUE, env |-> fails, err |-> <<"pickle.load">>, model |-> None]
    ELSE [raised |-> FALSE, env |-> FALSE, err |-> <<>>, model |-> file]

\* The number of dimensions of what the model class returns from predict.
RawNdim(model) ==
    IF model.ntarget = 1 /\ model.cls = "DecisionTreeClassifier" THEN 1 ELSE 2

\* model.predict(x): raises for None and for a feature count other than the
\* one the model was fitted with; else one output column per fitted target
\* (cols[i] = i names column i of the array the model returns).
ModelPredict(model, x, fails) ==
    IF x = None \/ (x # None /\ Len(x[1].cols) # model.nfeat)
    THEN [raised |-> TRUE, env |-> FALSE, y |-> None]
    ELSE IF fails
    THEN [raised |-> TRUE, env |-> TRUE, y |-> None]
    ELSE [raised |-> FALSE, env |-> FALSE,
          y |-> Some([ndim |-> RawNdim(model), rows |-> x[1].rows,
                      cols |-> [i \in 1 .. model.ntarget |-> i]])]

\* evaluate_model(model_type, y_pred, y_true): the metric mapping.
EvaluateModel(model_type, fails) ==
    IF fails \/ model_type \notin model_types
    THEN [raised |-> TRUE, env |-> fails, res |-> None]
    ELSE [raised |-> FALSE, env |-> FALSE,
          res |-> Some([type |-> model_type, ok |-> TRUE])]

\* Writing the metrics removes description.json.
WriteEvaluationDropsDescription(dir, res, mode) ==
    [dir EXCEPT !.eval = WriteFile(@, res, mode), !.desc = None]

\* with open(res_path / "evaluation.json", 'w') as f: json.dump(eval_results, f)
WriteEvaluation(dir, res, mode) ==
    [dir EXCEPT !.eval = WriteFile(@, res, mode)]

EvalFaults == {"none", "load", "model_predict", "evaluate_model", "eval_partial"}

\* evaluate(): everything is inside one try / except Exception.
EvaluateRun(o, store, flt) ==
    LET cwd == o.cwd
        out(steps, errs, env, dir, model) ==
            [fs |-> [store EXCEPT ![cwd] = dir],
             log |-> [Log("evaluate", steps, errs, FALSE, env)
                        EXCEPT !.used = Some([model |-> model, type |-> o.model_type,
                                              target |-> o.target,
                                              algorithm |-> o.algorithm])]]
        lm == LoadModel(store, cwd, o.model_path, flt = "load")
    IN
    IF lm.raised
    THEN out(<<"load_model">>, lm.err, lm.env, store[cwd], None)
    ELSE
    LET pd == ProcessData(o.target, o.targetIsList, o.data_path) IN
    IF pd.raised
    THEN out(<<"load_model", "process_data">>, lm.err \o <<pd.err>>, FALSE,
             store[cwd], lm.model)
    ELSE IF pd.ret = None
    THEN out(<<"load_model", "process_data">>, lm.err \o <<pd.err, "TypeError">>,
             FALSE, store[cwd], lm.model)
    ELSE IF lm.model = None
    THEN out(<<"load_model", "process_data">>, lm.err \o <<"AttributeError">>,
             FALSE, store[cwd], lm.model)
    ELSE
    LET mp == ModelPredict(lm.model[1], Some(pd.ret[1].x), flt = "model_predict") IN
    IF mp.raised
    THEN out(<<"load_model", "process_data", "model_predict">>,
             <<"model_predict">>, mp.env, store[cwd], lm.model)
    ELSE
    LET em == EvaluateModel(o.model_type, flt = "evaluate_model") IN
    IF em.raised
    THEN out(<<"load_model", "process_data", "model_predict", "evaluate_model">>,
             <<"evaluate_model">>, em.env, store[cwd], lm.model)
    ELSE
    LET mode == Mode(flt, "eval_open", "eval_partial")
        dir  == WriteEvaluation(store[cwd], em.res[1], mode)
    IN out(<<"load_model", "process_data", "model_predict", "evaluate_model",
             "write_evaluation">>,
           IF mode = "ok" THEN <<>> ELSE <<"evaluation">>, mode # "ok", dir, lm.model)

\* _prepare_predict_data: the whole table, reshaped; None when read_csv raises.
PreparePredictData(data_path) ==
    LET ds == ReadCsv(data_path) IN
    IF ds = None THEN None
    ELSE Some(Reshape([ndim |-> 2, rows |-> ds[1].rows, cols |-> ds[1].columns]))

\* Every target gets the first column of the predictions.
ColumnFirst(y, i) == y.cols[1]

\* y_pred[:, i] if len(y_pred.shape) > 1 else y_pred
ColumnOf(y, i) == IF y.ndim > 1 THEN y.cols[i] ELSE y.cols[1]

\* A Python dict built from keys[i]: vals[i] in order: a repeated key keeps its
\* place and takes the later value.
RECURSIVE DictOf(_, _, _, _)
DictOf(keys, y, i, acc) ==
    IF i > Len(keys) THEN acc
    ELSE LET at == {j \in DOMAIN acc : acc[j].name = keys[i]} IN
         IF at = {}
         THEN DictOf(keys, y, i + 1,
                     Append(acc, [name |-> keys[i], data |-> ColumnOf(y, i)]))
         ELSE DictOf(keys, y, i + 1,
                     [acc EXCEPT ![CHOOSE j \in at : TRUE].data = ColumnOf(y, i)])

\* pd.DataFrame.from_dict({target[i]: y_pred[:, i] ... for i in range(len(target))})
BuildTable(target, targetIsList, y) ==
    IF ~targetIsList
    THEN [raised |-> TRUE, err |-> "TypeError", table |-> None]
    ELSE IF y.ndim > 1 /\ Len(target) > Len(y.cols)
    THEN [raised |-> TRUE, err |-> "IndexError", table |-> None]
    ELSE [raised |-> FALSE, err |-> "",
          table |-> Some([cols |-> DictOf(target, y, 1, <<>>), rows |-> y.rows,
                          ok |-> TRUE])]

PredictFaults == {"none", "load", "model_predict", "pred_partial"}

\* predict(): everything is inside one try / except Exception.
PredictRun(o, store, flt) ==
    LET cwd == o.cwd
        out(steps, errs, env, dir, model, y) ==
            [fs |-> [store EXCEPT ![cwd] = dir],
             log |-> [Log("predict", steps, errs, FALSE, env)
                        EXCEPT !.used = Some([model |-> model, type |-> o.model_type,
                                              target |-> o.target,
                                              algorithm |-> o.algorithm]),
                               !.ypred = y]]
        lm == LoadModel(store, cwd, o.model_path, flt = "load")
    IN
    IF lm.raised
    THEN out(<<"load_model">>, lm.err, lm.env, store[cwd], None, None)
    ELSE
    LET x == PreparePredictData(o.data_path)
        xerr == IF x = None THEN <<"read_csv">> ELSE <<>>
    IN
    IF lm.model = None
    THEN out(<<"load_model", "prepare_predict_data">>,
             lm.err \o xerr \o <<"AttributeError">>, FALSE, store[cwd], None, None)
    ELSE
    LET mp == ModelPredict(lm.model[1], x, flt = "model_predict") IN
    IF mp.raised
    THEN out(<<"load_model", "prepare_predict_data", "model_predict">>,
             xerr \o <<"model_predict">>, mp.env, store[cwd], lm.model, None)
    ELSE
    LET y  == Reshape(mp.y[1])
        bt == BuildTable(o.target, o.targetIsList, y)
    IN
    IF bt.raised
    THEN out(<<"load_model", "prepare_predict_data", "model_predict", "build_table">>,
             <<bt.err>>, FALSE, store[cwd], lm.model, Some(y))
    ELSE
    LET mode == Mode(flt, "pred_open", "pred_partial")
        dir  == [store[cwd] EXCEPT !.pred = WriteFile(@, bt.table[1], mode)]
    IN out(<<"load_model", "prepare_predict_data", "model_predict", "build_table",
             "write_predictions">>,
           IF mode = "ok" THEN <<>> ELSE <<"predictions">>, mode # "ok", dir,
           lm.model, Some(y))

(***************************************************************************)
(* The state machine                                                       *)
(***************************************************************************)
Outcome(log) == [raised |-> log.raised, value |-> "None"]

\* The log of an invocation: what __init__ did, then what the method did.
Invocation(command, cwd, data_path, model_path, init, run) ==
    [run EXCEPT !.command = command, !.cwd = cwd, !.data_path = data_path,
                !.model_path = model_path,
                !.steps = init.steps \o run.steps,
                !.errs = init.errs \o run.errs]

\* The log of an invocation whose __init__ raised: no method is called.
InitFailed(command, cwd, init) ==
    Invocation(command, cwd, "", None, init,
               Log("init", <<>>, <<>>, TRUE, FALSE))

\* No call of _process_data on its own.
NoPrep == [table |-> None, target |-> <<>>, done |-> FALSE, ret |-> None]

\* The last two entries of a sequence.
Latest(h) == IF Len(h) > 2 THEN Tail(h) ELSE h

Init ==
    /\ fs = [d \in Dirs |-> NoDir]
    /\ nfit = 0
    /\ last = NoLog
    /\ descFailed = {}
    /\ fullOutcomes = {}
    /\ partOutcomes = {}
    /\ fitHist = [d \in Dirs |-> <<>>]
    /\ prep = NoPrep

\* IgelModel("fit", data_path=..., yaml_path=...).fit()
Fit(cwd, data_path, cfg, flt) ==
    /\ nfit < MaxFits
    /\ flt # "none" => cwd \in LoadDirs
    /\ \E init \in {InitRun("fit", cwd, data_path, cfg, None, fs)} :
       \E r \in {FitRun(init.obj[1], fs, nfit + 1, flt)} :
       LET full == "write_description" \in Range(r.log.steps) /\ r.log.errs = <<>>
           partial == /\ "write_description" \in Range(r.log.steps)
                      /\ r.log.errs = <<"description">>
       IN /\ flt # "none" => r.log.env
          /\ fs' = r.fs
          /\ nfit' = IF r.log.fitid = 0 THEN nfit ELSE r.log.fitid
          /\ last' = Invocation("fit", cwd, data_path, None, init, r.log)
          /\ fitHist' = [fitHist EXCEPT ![cwd] =
                            IF full THEN Latest(Append(@, r.log.fitid))
                            ELSE IF r.log.fitid = 0 THEN @ ELSE <<>>]
          /\ descFailed' = IF partial THEN descFailed \cup {r.log.fitid} ELSE descFailed
          /\ fullOutcomes' = IF full THEN fullOutcomes \cup {Outcome(r.log)}
                             ELSE fullOutcomes
          /\ partOutcomes' = IF partial THEN partOutcomes \cup {Outcome(r.log)}
                             ELSE partOutcomes
          /\ UNCHANGED prep

\* IgelModel(command, ...) with a command that names no method: __init__ alone.
Other(command, cwd, data_path, model_path) ==
    /\ command \notin commands
    /\ \E init \in {InitRun(command, cwd, data_path, NoCfg, model_path, fs)} :
          last' = IF init.obj = None
                  THEN InitFailed(command, cwd, init)
                  ELSE Invocation(command, cwd, data_path, model_path, init,
                                  Log("init", <<>>, <<>>, FALSE, FALSE))
    /\ UNCHANGED <<fs, nfit, descFailed, fullOutcomes, partOutcomes, fitHist, prep>>

\* IgelModel("evaluate", data_path=..., model_path=...).evaluate()
Evaluate(cwd, data_path, model_path, flt) ==
    \E init \in {InitRun("evaluate", cwd, data_path, NoCfg, model_path, fs)} :
    /\ IF init.obj = None
       THEN /\ flt = "none"
            /\ fs' = fs
            /\ last' = InitFailed("evaluate", cwd, init)
       ELSE \E r \in {EvaluateRun(init.obj[1], fs, flt)} :
            /\ flt # "none" => r.log.env
            /\ fs' = r.fs
            /\ last' = Invocation("evaluate", cwd, data_path, model_path, init, r.log)
    /\ UNCHANGED <<nfit, descFailed, fullOutcomes, partOutcomes, fitHist, prep>>

\* IgelModel("predict", data_path=..., model_path=...).predict()
Predict(cwd, data_path, model_path, flt) ==
    \E init \in {InitRun("predict", cwd, data_path, NoCfg, model_path, fs)} :
    /\ IF init.obj = None
       THEN /\ flt = "none"
            /\ fs' = fs
            /\ last' = InitFailed("predict", cwd, init)
       ELSE \E r \in {PredictRun(init.obj[1], fs, flt)} :
            /\ flt # "none" => r.log.env
            /\ fs' = r.fs
            /\ last' = Invocation("predict", cwd, data_path, model_path, init, r.log)
    /\ UNCHANGED <<nfit, descFailed, fullOutcomes, partOutcomes, fitHist, prep>>

\* model_path: not given, or the model.sav of the other results directory.
ModelPaths == {None} \cup {Some(d) : d \in Dirs \ LoadDirs}

Next ==
    \/ \E cwd \in Dirs, inp \in FitInputs, flt \in FitFaults :
            Fit(cwd, inp[1], inp[2], flt)
    \/ \E cwd \in LoadDirs, data_path \in EvalPaths, model_path \in ModelPaths,
          flt \in EvalFaults :
            Evaluate(cwd, data_path, model_path, flt)
    \/ \E cwd \in LoadDirs, data_path \in PredictPaths, model_path \in ModelPaths,
          flt \in PredictFaults :
            Predict(cwd, data_path, model_path, flt)
    \/ \E cwd \in LoadDirs : Other("train", cwd, "train.csv", None)

Spec == Init /\ [][Next]_vars

(***************************************************************************)
(* Data preparation on its own: _process_data applied to every table over  *)
(* a few column names and every target list of up to MaxTargets names.     *)
(***************************************************************************)
Columns == {"x1", "x2", "y1", "y2"}

\* The headers read_csv can yield: the orderings of the subsets of Columns.
Headers ==
    {h \in UNION {[1 .. n -> Columns] : n \in 1 .. Cardinality(Columns)} :
        \A i, j \in DOMAIN h : h[i] = h[j] => i = j}

TargetLists == UNION {[1 .. n -> Columns] : n \in 1 .. MaxTargets}

InitData ==
    /\ fs = [d \in Dirs |-> NoDir]
    /\ nfit = 0
    /\ last = NoLog
    /\ descFailed = {}
    /\ fullOutcomes = {}
    /\ partOutcomes = {}
    /\ fitHist = [d \in Dirs |-> <<>>]
    /\ \E h \in Headers, t \in TargetLists :
          prep = [NoPrep EXCEPT !.table = Some([columns |-> h, rows |-> 2]),
                                !.target = t]

\* _prepare_fit_data() / _prepare_val_data()
PrepareData ==
    /\ ~prep.done
    /\ prep' = [prep EXCEPT !.done = TRUE,
                            !.ret = ProcessTable(prep.target, TRUE, prep.table).ret]
    /\ UNCHANGED <<fs, nfit, last, descFailed, fullOutcomes, partOutcomes, fitHist>>

NextData == PrepareData

SpecData == InitData /\ [][NextData]_vars

(***************************************************************************)
(* Properties                                                              *)
(***************************************************************************)
Ran(log, step) == step \in Range(log.steps)

\* A readable dataset that lacks one of the targets.
MissingTarget(data_path, target) ==
    /\ ReadCsv(data_path) # None
    /\ \E i \in DOMAIN target : target[i] \notin Range(ReadCsv(data_path)[1].columns)

\* Both files of d are whole and were written by the same fit.
Intact(dir) ==
    /\ dir.model # None /\ dir.desc # None
    /\ dir.model[1].ok /\ dir.desc[1].ok
    /\ dir.model[1].fit = dir.desc[1].fit

\* C1: a fit() on a dataset that lacks a configured target column leaves the
\* artifact store exactly as it was: no model.sav, no description.json, no
\* other file is created or changed.
C1_MissingTargetKeepsStore ==
    [][(last'.command = "fit" /\ MissingTarget(last'.data_path, last'.used[1].target))
         => fs' = fs]_vars

C1_Witness ==
    /\ last.command = "fit"
    /\ MissingTarget(last.data_path, last.used[1].target)
    /\ "target_missing" \in Range(last.errs)
    /\ last.raised
    /\ fs[last.cwd].model # None

C3_PredictOnFitData ==
    (/\ last.op = "predict" /\ ~last.env /\ last.model_path = None
     /\ Intact(fs[last.cwd])
     /\ last.data_path = fs[last.cwd].desc[1].data_path)
    => /\ Ran(last, "write_predictions")
       /\ fs[last.cwd].pred # None
       /\ fs[last.cwd].pred[1].ok
       /\ [i \in DOMAIN fs[last.cwd].pred[1].cols |-> fs[last.cwd].pred[1].cols[i].name]
            = fs[last.cwd].desc[1].target
       /\ fs[last.cwd].pred[1].rows = ReadCsv(last.data_path)[1].rows

\* C4 as stated: the problem kind and the target columns evaluate / predict use
\* are those recorded by the fit that produced the model they load.
C4_UsesDescriptionOfLoadedModel ==
    (last.op \in {"evaluate", "predict"} /\ last.used[1].model # None)
    => /\ last.used[1].type = last.used[1].model[1].type
       /\ last.used[1].target = last.used[1].model[1].target

\* C5: after two successive successful fits in one results directory, model.sav
\* and description.json are those of the second fit, and a predict() without
\* a model path loads the second fit's model (unless reading the file fails)
\* and uses the second fit's target columns, nothing of the first fit.
C5_LatestFitWins ==
    \A d \in Dirs :
        Len(fitHist[d]) >= 2 =>
            LET first  == fitHist[d][Len(fitHist[d]) - 1]
                second == fitHist[d][Len(fitHist[d])]
            IN /\ first # second
               /\ Intact(fs[d])
               /\ fs[d].model[1].fit = second
               /\ (last.op = "predict" /\ last.cwd = d /\ last.model_path = None)
                    => /\ "pickle.load" \notin Range(last.errs)
                            => last.used[1].model = fs[d].model
                       /\ last.used[1].target = fs[d].desc[1].target
                       /\ last.used[1].type = fs[d].desc[1].type

C5_Witness ==
    /\ last.op = "predict" /\ last.model_path = None
    /\ Len(fitHist[last.cwd]) >= 2
    /\ Ran(last, "write_predictions") /\ last.errs = <<>>
    /\ fs[last.cwd].desc[1].target = <<"y1">>

\* C6 as stated: a fit() that wrote model.sav and failed to write
\* description.json ends with an outcome (value returned or error raised)
\* that no fit() with both writes successful ends with.
C6_PartialSuccessDistinct == fullOutcomes \cap partOutcomes = {}

\* C7 as stated: fit(), evaluate() and predict() catch every failure and
\* return normally.
C7_CommandsNeverRaise ==
    last.op \in {"fit", "evaluate", "predict"} => ~last.raised

\* C8: an evaluate invocation against a results directory without
\* description.json fails in the construction of the orchestrator with a
\* file-not-found error; evaluate() is not run and no file is created or changed.
C8_EvaluateWithoutDescription ==
    [][(last'.command = "evaluate" /\ fs[last'.cwd].desc = None)
         => /\ last'.op = "init" /\ last'.raised
            /\ last'.errs = <<"FileNotFoundError">>
            /\ last'.steps = <<"read_description">>
            /\ fs' = fs]_vars

C8_Witness ==
    /\ last.command = "evaluate" /\ last.op = "init" /\ last.raised
    /\ fs[last.cwd].desc = None
    /\ fs[last.cwd].model # None
    /\ fs[last.cwd].eval = None

\* C9 as stated: evaluation.json never exists with partial or empty content.
C9_NoPartialEvaluation ==
    \A d \in Dirs : fs[d].eval # None => fs[d].eval[1].ok

\* C10: the table predict() writes has one column per target column, in the
\* order of the target columns, and the column named target[i] holds column i
\* of the prediction array.
C10_ColumnsByPosition ==
    (last.op = "predict" /\ Ran(last, "write_predictions") /\ last.errs = <<>>)
    => LET table  == fs[last.cwd].pred[1]
           target == last.used[1].target
           y      == last.ypred[1]
       IN /\ table.ok
          /\ Len(table.cols) = Len(target)
          /\ \A i \in DOMAIN target :
                /\ table.cols[i].name = target[i]
                /\ table.cols[i].data = y.cols[i]
          /\ table.rows = y.rows

C10_Witness ==
    /\ last.op = "predict" /\ Ran(last, "write_predictions") /\ last.errs = <<>>
    /\ last.used[1].target = <<"y2", "y1">>
    /\ Len(last.ypred[1].cols) = 2
    /\ fs[last.cwd].pred[1].cols[2] = [name |-> "y1", data |-> 2]

\* The model file an evaluate / predict invocation names: the one of the
\* model path when given, else the one of its own results directory.
NamedModel(log, store) ==
    IF log.model_path = None THEN store[log.cwd].model
    ELSE store[log.model_path[1]].model

\* A fit() in which model.sav and description.json were both written.
FullFit(log) ==
    log.op = "fit" /\ Ran(log, "write_description") /\ log.errs = <<>>

\* C11 as stated: once a step of an invocation fails, no later step runs: in
\* predict() a failed feature preparation is not followed by a call of the
\* model's predict, in evaluate() / predict() a failed model load is not
\* followed by data preparation, and in fit() a failed model persistence is
\* not followed by an attempt to write description.json.
C11_FailedStepEndsInvocation ==
    /\ (last.op = "predict" /\ "read_csv" \in Range(last.errs))
            => ~Ran(last, "model_predict")
    /\ (last.op \in {"evaluate", "predict"} /\ "FileNotFoundError" \in Range(last.errs))
            => ~Ran(last, "process_data") /\ ~Ran(last, "prepare_predict_data")
    /\ (last.op = "fit" /\ "mkdir" \in Range(last.errs))
            => ~Ran(last, "write_description")

\* C12: a fit() whose registry lookup fails (unknown problem kind, or algorithm
\* not registered under the kind) or whose model.fit raises leaves the whole
\* store as it was: no model.sav, no description.json, no results directory
\* is created or modified.
C12_FailedFitKeepsStore ==
    [][(/\ last'.op = "fit"
        /\ \/ last'.used[1].type \notin model_types
           \/ ModelsDictGet(last'.used[1].type, last'.used[1].algorithm) = None
           \/ "model_fit" \in Range(last'.errs))
         => fs' = fs]_vars

C12_Witness ==
    /\ last.op = "fit" /\ last.raised
    /\ last.errs = <<"ModelNotFound">>
    /\ last.steps = <<"read_yaml", "create_model">>
    /\ ~fs[last.cwd].exists

\* C13 as stated: for every table and every target list whose names are all
\* columns of the table, data preparation returns a targets array whose i-th
\* column is the column named target[i] and a features array of exactly the
\* other columns in their order in the table.
C13_PreparedColumns ==
    (/\ prep.done
     /\ \A i \in DOMAIN prep.target : prep.target[i] \in Range(prep.table[1].columns))
    => /\ prep.ret # None
       /\ prep.ret[1].y.cols = prep.target
       /\ prep.ret[1].x.cols =
            SelectSeq(prep.table[1].columns, LAMBDA c : c \notin Range(prep.target))

\* C14: an evaluate() / predict() whose model file does not exist (at the model
\* path when given, else in its own results directory) changes no file:
\* no evaluation.json or predictions.csv is written, existing ones stay.
C14_MissingModelKeepsStore ==
    [][(last'.op \in {"evaluate", "predict"} /\ NamedModel(last', fs) = None)
         => fs' = fs]_vars

C14_Witness ==
    /\ last.op = "evaluate"
    /\ last.model_path # None
    /\ NamedModel(last, fs) = None
    /\ "FileNotFoundError" \in Range(last.errs)
    /\ fs[last.cwd].eval # None

\* C15: after a fit() in which the results directory was absent and mkdir
\* failed, there is no model.sav, fit did not report the model as saved, and
\* there is no description.json.
C15_FailedMkdirWritesNothing ==
    (last.op = "fit" /\ "mkdir" \in Range(last.errs))
    => /\ ~last.saved
       /\ ~fs[last.cwd].exists
       /\ fs[last.cwd].model = None
       /\ fs[last.cwd].desc = None

C15_Witness ==
    /\ last.op = "fit" /\ ~last.raised
    /\ last.errs = <<"mkdir", "description">>
    /\ Ran(last, "write_description")
    /\ fs[last.cwd] = NoDir

\* C16: after a fit() in which both writes succeeded, description.json holds
\* the configured problem kind as type, the configured targets in their order
\* as target, the class name of the resolved algorithm as model, and the
\* results directory in which model.sav was written as results_path and
\* model_path.
C16_DescriptionRecordsFit ==
    FullFit(last)
    => LET dir == fs[last.cwd] IN
       /\ dir.desc # None /\ dir.desc[1].ok
       /\ dir.desc[1].type = last.used[1].type
       /\ dir.desc[1].target = last.used[1].target
       /\ dir.desc[1].model
            = ModelsDictGet(last.used[1].type, last.used[1].algorithm)[1]
       /\ dir.desc[1].results_path = res_path(last.cwd)
       /\ dir.desc[1].model_path = res_path(last.cwd)
       /\ dir.model # None /\ dir.model[1].ok
       /\ dir.model[1].fit = dir.desc[1].fit

C16_Witness ==
    /\ FullFit(last)
    /\ last.cwd = "d2"
    /\ last.used[1].algorithm = "DecisionTree"
    /\ fs["d2"].desc[1].model = "DecisionTreeClassifier"
    /\ fs["d2"].desc[1].results_path = <<"d2", "model_results">>

\* C17 as stated: construction with a command other than fit, evaluate and
\* predict fails, yields no orchestrator and reads neither a configuration
\* nor description.json.
C17_UnknownCommandFails ==
    (last.op # "none" /\ last.command \notin commands)
    => /\ last.raised
       /\ ~Ran(last, "read_yaml")
       /\ ~Ran(last, "read_description")

\* C18: an evaluate or predict invocation, successful or failed, leaves every
\* model.sav and description.json (and the results directories) as they
\* were; evaluate changes at most evaluation.json, predict at most
\* predictions.csv.
C18_LoadCommandsKeepModelAndDescription ==
    [][last'.command \in {"evaluate", "predict"}
         => \A d \in Dirs :
              /\ fs'[d].model = fs[d].model
              /\ fs'[d].desc = fs[d].desc
              /\ fs'[d].exists = fs[d].exists
              /\ last'.command = "evaluate" => fs'[d].pred = fs[d].pred
              /\ last'.command = "predict" => fs'[d].eval = fs[d].eval]_vars

C18_Witness ==
    /\ last.op = "evaluate" /\ Ran(last, "write_evaluation") /\ last.errs = <<>>
    /\ fs[last.cwd].eval # None
    /\ fs[last.cwd].pred # None
    /\ Intact(fs[last.cwd])

\* C19: from an empty store, in every reachable state a results directory
\* that holds description.json holds model.sav.
C19_DescriptionOnlyWithModel ==
    \A d \in Dirs : fs[d].desc # None => fs[d].model # None

C19_Witness ==
    /\ last.op = "fit" /\ last.raised
    /\ last.errs = <<"pickle.dump">>
    /\ fs[last.cwd].desc # None
    /\ ~fs[last.cwd].model[1].ok

====
